---- MODULE Spec2Model ----
(***************************************************************************)
(* Sales-margin analysis pipeline: the two entry points price_analysis.py  *)
(* (load_data -> summarize -> export_tables -> plots) and                  *)
(* analyze_products.py (load_data -> calculate_metrics ->                  *)
(* analyze_by_category -> identify_issues -> create_visualizations ->      *)
(* generate_report -> write).                                              *)
(*                                                                         *)
(* Text (category labels, product names) is a sequence of characters, so   *)
(* that substring search and lexicographic key order are computed.  A      *)
(* numeric cell is a record [k, n, d]: k = "num" is the rational n/d,      *)
(* k = "nan" is NaN (an empty cell), k = "inf" is +/-infinity by the sign  *)
(* of n, k = "text" is a cell holding unparsable text.  The sheet columns  *)
(* carry their ASCII names: category = 一级分类, product_name = 商品名称,  *)
(* sales_amount = 求和项:实际金额, gross_profit = 求和项:销售毛利,         *)
(* margin_rate = 求和项:标品毛利率, contribution = 求和项:贡献值; the      *)
(* characters H, Z, J stand for 汇, 总, 计.  Rows carry the sales_amount   *)
(* and gross_profit cells; margin_rate and contribution are present as     *)
(* columns of the schema only.                                             *)
(***************************************************************************)
EXTENDS Integers, Sequences, FiniteSets, TLC

\* ---------------------------------------------------------------- bounds
MaxRows == 2
MaxEntities == 3

\* ---------------------------------------------------------------- text
NA == <<"NaN">>

CharCode(c) ==
  CASE c = "1" -> 49
    [] c = "2" -> 50
    [] c = "A" -> 65
    [] c = "B" -> 66
    [] c = "C" -> 67
    [] c = "a" -> 97
    [] c = "n" -> 110
    [] c = "p" -> 112
    [] c = "Z" -> 24635
    [] c = "H" -> 27719
    [] c = "J" -> 35745
    [] OTHER -> 0

RECURSIVE StrLtFrom(_, _, _)
StrLtFrom(s, t, i) ==
  IF i > Len(t) THEN FALSE
  ELSE IF i > Len(s) THEN TRUE
  ELSE IF CharCode(s[i]) < CharCode(t[i]) THEN TRUE
  ELSE IF CharCode(s[i]) > CharCode(t[i]) THEN FALSE
  ELSE StrLtFrom(s, t, i + 1)

StrLt(s, t) == StrLtFrom(s, t, 1)

notna(s) == s # NA

astype_str(s) == IF s = NA THEN <<"n", "a", "n">> ELSE s

Contains(s, pat) ==
  \E i \in 1..(Len(s) - Len(pat) + 1) : SubSeq(s, i, i + Len(pat) - 1) = pat

SUMMARY_MARK == <<"H", "Z">>
TOTAL_MARK == <<"Z", "J">>

\* Series.str.contains(pat, na=False) on an object column: a NaN entry gives na.
str_contains(s, pats, na) ==
  IF s = NA THEN na ELSE \E p \in pats : Contains(s, p)

\* ---------------------------------------------------------------- numbers
Num(x) == [k |-> "num", n |-> x, d |-> 1]
Ratio(x, y) == [k |-> "num", n |-> x, d |-> y]
NaN == [k |-> "nan", n |-> 0, d |-> 1]
PosInf == [k |-> "inf", n |-> 1, d |-> 1]
NegInf == [k |-> "inf", n |-> -1, d |-> 1]
Text == [k |-> "text", n |-> 0, d |-> 1]

IsFinite(x) == x.k = "num"
num_notna(x) == x.k # "nan"

\* pd.to_numeric(errors="coerce"): numbers stay, anything unparsable is NaN.
to_numeric(x) == IF x.k = "text" THEN NaN ELSE x

\* IEEE comparisons: every comparison with NaN is false.
Ge(x, y) ==
  /\ x.k # "nan" /\ y.k # "nan"
  /\ IF x.k = "inf" THEN (x.n > 0 \/ (y.k = "inf" /\ y.n < 0))
     ELSE IF y.k = "inf" THEN y.n < 0
     ELSE x.n * y.d >= y.n * x.d
Gt(x, y) ==
  /\ x.k # "nan" /\ y.k # "nan"
  /\ IF x.k = "inf" THEN (x.n > 0 /\ ~(y.k = "inf" /\ y.n > 0))
     ELSE IF y.k = "inf" THEN y.n < 0
     ELSE x.n * y.d > y.n * x.d
Le(x, y) == Ge(y, x)
Lt(x, y) == Gt(y, x)

Add(x, y) == Ratio(x.n * y.d + y.n * x.d, x.d * y.d)

\* Float division: x/0 is +/-inf by the sign of x, 0/0 and NaN operands give NaN.
Div(x, y) ==
  IF x.k # "num" \/ y.k # "num" THEN NaN
  ELSE IF y.n = 0 THEN (IF x.n = 0 THEN NaN ELSE IF x.n > 0 THEN PosInf ELSE NegInf)
  ELSE IF y.n > 0 THEN Ratio(x.n * y.d, x.d * y.n)
  ELSE Ratio(-(x.n * y.d), x.d * (-y.n))

\* Nearest integer to n/d (d > 0), ties to the even integer.
RoundHalfEven(n, d) ==
  LET q == (2 * n + d) \div (2 * d)
      exactTie == (2 * n + d) % (2 * d) = 0
  IN IF exactTie /\ q % 2 # 0 THEN q - 1 ELSE q

\* ---- IEEE double arithmetic of the rate column.  A finite double is
\* [k |-> "f64", s |-> sign, m |-> bits, e |-> exponent]: m is the significand,
\* most significant bit first, at most 53 bits, <<>> for zero; the value is
\* s * m * 2^e.  NaN and the infinities are the records above.
F64_BITS == 53

\* Binary digits of a natural number, most significant first (<<>> for 0).
RECURSIVE IntBits(_)
IntBits(n) == IF n = 0 THEN <<>> ELSE Append(IntBits(n \div 2), n % 2)

RECURSIVE BitsToInt(_)
BitsToInt(bits) ==
  IF bits = <<>> THEN 0
  ELSE 2 * BitsToInt(SubSeq(bits, 1, Len(bits) - 1)) + bits[Len(bits)]

\* The low `width` binary digits of a natural number, most significant first.
FixedBits(n, width) == [i \in 1..width |-> (n \div 2^(width - i)) % 2]

StripZeros(bits) ==
  IF \A i \in 1..Len(bits) : bits[i] = 0 THEN <<>>
  ELSE SubSeq(bits, CHOOSE i \in 1..Len(bits) :
                      bits[i] = 1 /\ \A j \in 1..(i - 1) : bits[j] = 0, Len(bits))

\* bits + 1, one bit longer when every bit is 1.
Increment(bits) ==
  IF \A i \in 1..Len(bits) : bits[i] = 1 THEN <<1>> \o [i \in 1..Len(bits) |-> 0]
  ELSE LET z == CHOOSE i \in 1..Len(bits) :
                  bits[i] = 0 /\ \A j \in (i + 1)..Len(bits) : bits[j] = 1
       IN [i \in 1..Len(bits) |-> IF i < z THEN bits[i] ELSE IF i = z THEN 1 ELSE 0]

\* Round a significand of any length to 53 bits, to nearest, ties to even;
\* sticky says that non-zero digits follow the last bit of bits.
f64_round(sign, bits, e, sticky) ==
  IF Len(bits) <= F64_BITS THEN [k |-> "f64", s |-> sign, m |-> bits, e |-> e]
  ELSE LET kept == SubSeq(bits, 1, F64_BITS)
           guard == bits[F64_BITS + 1]
           rest == sticky \/ \E j \in (F64_BITS + 2)..Len(bits) : bits[j] = 1
           up == guard = 1 /\ (rest \/ kept[F64_BITS] = 1)
           dropped == Len(bits) - F64_BITS
           m == IF up THEN Increment(kept) ELSE kept
       IN IF Len(m) > F64_BITS
          THEN [k |-> "f64", s |-> sign, m |-> SubSeq(m, 1, F64_BITS), e |-> e + dropped + 1]
          ELSE [k |-> "f64", s |-> sign, m |-> m, e |-> e + dropped]

\* Long division r / d continued below the binary point, STEP bits at a time,
\* until more than 53 significant bits are known or the remainder is 0
\* (divisors below 2^23, so that r * 2^STEP stays a machine integer).
STEP == 8

RECURSIVE QuotientBits(_, _, _, _, _)
QuotientBits(sign, bits, r, d, e) ==
  IF r = 0 \/ Len(bits) > F64_BITS THEN f64_round(sign, bits, e, r # 0)
  ELSE LET digits == FixedBits((r * 2^STEP) \div d, STEP)
       IN QuotientBits(sign, IF bits = <<>> THEN StripZeros(digits) ELSE bits \o digits,
                       (r * 2^STEP) % d, d, e - STEP)

Abs(n) == IF n < 0 THEN -n ELSE n

\* x / y on two float64 columns holding the exact values x and y: the correctly
\* rounded quotient; x/0 is +/-inf by the sign of x, 0/0 and NaN operands give NaN.
f64_div(x, y) ==
  IF x.k # "num" \/ y.k # "num" THEN NaN
  ELSE IF y.n = 0 THEN (IF x.n = 0 THEN NaN ELSE IF x.n > 0 THEN PosInf ELSE NegInf)
  ELSE LET num == Abs(x.n * y.d)
           den == Abs(x.d * y.n)
           sign == IF (x.n < 0) # (y.n < 0) THEN -1 ELSE 1
       IN QuotientBits(sign, IntBits(num \div den), num % den, den, 0)

\* bits * c + carry for a small natural c, from the last bits to the first,
\* CHUNK bits at a time.
CHUNK == 16

RECURSIVE MulBits(_, _, _)
MulBits(bits, c, carry) ==
  IF bits = <<>> THEN IntBits(carry)
  ELSE LET w == IF Len(bits) < CHUNK THEN Len(bits) ELSE CHUNK
           t == BitsToInt(SubSeq(bits, Len(bits) - w + 1, Len(bits))) * c + carry
       IN MulBits(SubSeq(bits, 1, Len(bits) - w), c, t \div 2^w) \o FixedBits(t % 2^w, w)

\* x * c in double arithmetic, c a small natural number.
f64_mul(x, c) ==
  IF x.k # "f64" THEN x ELSE f64_round(x.s, StripZeros(MulBits(x.m, c, 0)), x.e, FALSE)

\* numpy rint: the nearest integer, ties to the even one.
rint(x) ==
  IF x.e >= 0 THEN x.s * BitsToInt(x.m \o [i \in 1..x.e |-> 0])
  ELSE LET f == -x.e
           padded == [i \in 1..(IF f + 1 > Len(x.m) THEN f + 1 - Len(x.m) ELSE 0) |-> 0] \o x.m
           whole == SubSeq(padded, 1, Len(padded) - f)
           guard == padded[Len(padded) - f + 1]
           rest == \E j \in (Len(padded) - f + 2)..Len(padded) : padded[j] = 1
           odd == whole # <<>> /\ whole[Len(whole)] = 1
       IN x.s * (BitsToInt(whole) + IF guard = 1 /\ (rest \/ odd) THEN 1 ELSE 0)

\* Series.round(2) on a float64 column: rint(x * 100) / 100, NaN and infinities
\* unchanged.  The result is the double nearest to the hundredths value, held
\* here as that value.
round2(x) == IF x.k = "f64" THEN Ratio(rint(f64_mul(x, 100)), 100) ELSE x

\* ---------------------------------------------------------------- columns
CATEGORY == "category"
PRODUCT_NAME == "product_name"
SALES_AMOUNT == "sales_amount"
GROSS_PROFIT == "gross_profit"
MARGIN_RATE == "margin_rate"
CONTRIBUTION == "contribution"
CATEGORY_FILLED == "category_filled"

NUMERIC_COLS == <<SALES_AMOUNT, GROSS_PROFIT, MARGIN_RATE, CONTRIBUTION>>

AllColumns == {CATEGORY, PRODUCT_NAME, SALES_AMOUNT, GROSS_PROFIT, MARGIN_RATE, CONTRIBUTION}

Range(s) == {s[i] : i \in 1..Len(s)}

\* Series.ffill(): the last valid value at or before position i, NaN if none.
RECURSIVE LastValid(_, _)
LastValid(col, i) ==
  IF i = 0 THEN NA
  ELSE IF notna(col[i]) THEN col[i]
  ELSE LastValid(col, i - 1)

ffill(col) == [i \in 1..Len(col) |-> LastValid(col, i)]

\* ---------------------------------------------------------------- frames
\* A DataFrame: the set of its columns and the sequence of its rows.
Frame(cols, rows) == [columns |-> cols, rows |-> rows]
EmptyFrame == Frame({}, <<>>)

\* df[col] = values: the row gains (or overwrites) the field col.
WithField(r, col, v) ==
  [f \in (DOMAIN r) \cup {col} |-> IF f = col THEN v ELSE r[f]]

ColumnOf(rows, col) == [i \in 1..Len(rows) |-> rows[i][col]]

\* groupby(...).sum(): NaN entries are skipped, an all-NaN group sums to 0.
RECURSIVE SumCol(_, _)
SumCol(rows, col) ==
  IF rows = <<>> THEN Num(0)
  ELSE IF num_notna(Head(rows)[col]) THEN Add(Head(rows)[col], SumCol(Tail(rows), col))
  ELSE SumCol(Tail(rows), col)

\* groupby keys: the distinct non-NaN keys in ascending order (sort=True, dropna=True).
RECURSIVE SortKeys(_)
SortKeys(S) ==
  IF S = {} THEN <<>>
  ELSE LET m == CHOOSE x \in S : \A y \in S \ {x} : StrLt(x, y)
       IN <<m>> \o SortKeys(S \ {m})

GroupKeys(rows, col) == SortKeys({rows[i][col] : i \in 1..Len(rows)} \ {NA})

PairLt(a, b) == StrLt(a[1], b[1]) \/ (a[1] = b[1] /\ StrLt(a[2], b[2]))

RECURSIVE SortPairs(_)
SortPairs(S) ==
  IF S = {} THEN <<>>
  ELSE LET m == CHOOSE x \in S : \A y \in S \ {x} : PairLt(x, y)
       IN <<m>> \o SortPairs(S \ {m})

\* nunique(): number of distinct non-NaN values.
nunique(rows, col) == Cardinality({rows[i][col] : i \in 1..Len(rows)} \ {NA})

\* ------------------------------------------------- price_analysis.py
\* load_data after read_excel: fill, drop nameless rows, drop rows whose label
\* (as text) contains the block-summary mark, coerce the numeric columns.
load_data(sheet) ==
  LET filledCol == ffill(ColumnOf(sheet.rows, CATEGORY))
      filled == [i \in 1..Len(sheet.rows) |-> [sheet.rows[i] EXCEPT !.category = filledCol[i]]]
      named == SelectSeq(filled, LAMBDA r : notna(r.product_name))
      kept == SelectSeq(named,
                LAMBDA r : ~str_contains(astype_str(r.category), {SUMMARY_MARK}, FALSE))
      coerced == [i \in 1..Len(kept) |->
                   [kept[i] EXCEPT !.sales_amount = to_numeric(@),
                                   !.gross_profit = to_numeric(@)]]
  IN Frame(sheet.columns, coerced)

\* The columns load_data indexes; a missing one raises KeyError.
load_data_columns == {CATEGORY, PRODUCT_NAME} \cup Range(NUMERIC_COLS)

CatSummaryRow(rows, key) ==
  LET g == SelectSeq(rows, LAMBDA r : r.category = key)
      sales == SumCol(g, SALES_AMOUNT)
      profit == SumCol(g, GROSS_PROFIT)
  IN [category |-> key, sales_amount |-> sales, gross_profit |-> profit,
      sku_count |-> nunique(g, PRODUCT_NAME),
      realized_margin_rate |-> Div(profit, sales)]

\* DataFrame.replace([pd.NA, pd.NaT, inf, -inf], 0): infinities become 0; a NaN
\* becomes 0 only in pandas builds where an NA-like entry of the list matches NaN
\* in a float column (naMatches).
replace_nonfinite(x, naMatches) ==
  IF x.k = "inf" THEN Num(0)
  ELSE IF x.k = "nan" /\ naMatches THEN Num(0)
  ELSE x

ProductSummaryRow(rows, key, naMatches) ==
  LET g == SelectSeq(rows, LAMBDA r : r.category = key[1] /\ r.product_name = key[2])
      sales == SumCol(g, SALES_AMOUNT)
      profit == SumCol(g, GROSS_PROFIT)
  IN [category |-> key[1], product_name |-> key[2],
      sales_amount |-> replace_nonfinite(sales, naMatches),
      gross_profit |-> replace_nonfinite(profit, naMatches),
      realized_margin_rate |-> replace_nonfinite(Div(profit, sales), naMatches)]

\* summarize: <<cat_summary, product_summary>>.
summarize(frame, naMatches) ==
  LET rows == frame.rows
      ckeys == GroupKeys(rows, CATEGORY)
      pkeys == SortPairs({<<rows[i].category, rows[i].product_name>> : i \in 1..Len(rows)}
                         \ {p \in {<<rows[i].category, rows[i].product_name>> : i \in 1..Len(rows)} :
                              p[1] = NA \/ p[2] = NA})
  IN << [i \in 1..Len(ckeys) |-> CatSummaryRow(rows, ckeys[i])],
        [i \in 1..Len(pkeys) |-> ProductSummaryRow(rows, pkeys[i], naMatches)] >>

\* The denominators of the divisions gross_profit / sales_amount that summarize
\* carries out: the summed sales_amount of every category group and of every
\* (category, product) group, as summed, with no group left out.
summarize_denominators(frame) ==
  LET rows == frame.rows
      ckeys == GroupKeys(rows, CATEGORY)
      pairs == {<<rows[i].category, rows[i].product_name>> : i \in 1..Len(rows)}
      pkeys == {p \in pairs : p[1] # NA /\ p[2] # NA}
  IN {SumCol(SelectSeq(rows, LAMBDA r : r.category = key), SALES_AMOUNT) :
        key \in Range(ckeys)}
     \cup {SumCol(SelectSeq(rows, LAMBDA r : r.category = p[1] /\ r.product_name = p[2]),
                  SALES_AMOUNT) : p \in pkeys}

\* sort_values(by, ascending=False) on a short table: rows in descending order
\* of by, ties in their previous order.
RECURSIVE InsertDesc(_, _, _)
InsertDesc(sorted, e, by) ==
  IF sorted = <<>> THEN <<e>>
  ELSE IF Ge(Head(sorted)[by], e[by]) THEN <<Head(sorted)>> \o InsertDesc(Tail(sorted), e, by)
  ELSE <<e>> \o sorted

RECURSIVE SortDesc(_, _)
SortDesc(rows, by) ==
  IF rows = <<>> THEN <<>>
  ELSE InsertDesc(SortDesc(SubSeq(rows, 1, Len(rows) - 1), by), rows[Len(rows)], by)

\* export_tables: the three filtered views of the product summary.
export_tables(ps) ==
  [high_margin |-> SortDesc(SelectSeq(ps, LAMBDA r : Ge(r.realized_margin_rate, Ratio(18, 100))),
                            "realized_margin_rate"),
   low_margin |-> SortDesc(SelectSeq(ps, LAMBDA r : Le(r.realized_margin_rate, Ratio(5, 100))),
                           "sales_amount"),
   zero_margin |-> SortDesc(SelectSeq(ps, LAMBDA r : Le(r.realized_margin_rate, Num(0))),
                            "sales_amount")]

\* ------------------------------------------------- analyze_products.py
\* calculate_metrics: totals over the rows that have a product name.
calculate_metrics(frame) ==
  LET df_clean_m == SelectSeq(frame.rows, LAMBDA r : notna(r.product_name))
  IN [total_profit |->
        IF GROSS_PROFIT \in frame.columns THEN SumCol(df_clean_m, GROSS_PROFIT) ELSE NaN,
      has_total_profit |-> GROSS_PROFIT \in frame.columns,
      total_amount |->
        IF SALES_AMOUNT \in frame.columns THEN SumCol(df_clean_m, SALES_AMOUNT) ELSE NaN,
      has_total_amount |-> SALES_AMOUNT \in frame.columns]

\* The first statement of analyze_by_category: df gains the filled column in place.
fill_in_place(frame) ==
  LET filledCol == ffill(ColumnOf(frame.rows, CATEGORY))
  IN Frame(frame.columns \cup {CATEGORY_FILLED},
           [i \in 1..Len(frame.rows) |-> WithField(frame.rows[i], CATEGORY_FILLED, filledCol[i])])

\* df_clean of analyze_by_category: rows with a name and an amount, without the
\* rows whose filled label contains the block-summary or the grand-total mark.
clean_rows(filledRows) ==
  LET named == SelectSeq(filledRows, LAMBDA r : notna(r.product_name))
      withAmount == SelectSeq(named, LAMBDA r : num_notna(r.sales_amount))
  IN SelectSeq(withAmount,
       LAMBDA r : ~str_contains(r.category_filled, {SUMMARY_MARK, TOTAL_MARK}, FALSE))

CategoryRow(rows, key) ==
  LET g == SelectSeq(rows, LAMBDA r : r.category_filled = key)
      amount == SumCol(g, SALES_AMOUNT)
      profit == SumCol(g, GROSS_PROFIT)
  IN [category |-> key, amount |-> amount, profit |-> profit,
      rate |-> round2(f64_mul(f64_div(profit, amount), 100))]

\* The grouped table with its rate column, before the positive-amount filter.
grouped_rates(cleanRows) ==
  LET keys == GroupKeys(cleanRows, CATEGORY_FILLED)
  IN [i \in 1..Len(keys) |-> CategoryRow(cleanRows, keys[i])]

\* The denominators of the division profit / amount * 100: one per group of the
\* grouped table, computed before the rows with amount > 0 are selected.
analyze_denominators(cleanRows) ==
  {SumCol(SelectSeq(cleanRows, LAMBDA r : r.category_filled = key), SALES_AMOUNT) :
     key \in Range(GroupKeys(cleanRows, CATEGORY_FILLED))}

\* analyze_by_category: the returned table (groups with amount > 0, by amount
\* descending).
analyze_by_category(frame) ==
  LET grouped == grouped_rates(clean_rows(fill_in_place(frame).rows))
  IN SortDesc(SelectSeq(grouped, LAMBDA r : Gt(r.amount, Num(0))), "amount")

\* Ascending insertion, for the median.
RECURSIVE InsertAsc(_, _)
InsertAsc(sorted, x) ==
  IF sorted = <<>> THEN <<x>>
  ELSE IF Le(Head(sorted), x) THEN <<Head(sorted)>> \o InsertAsc(Tail(sorted), x)
  ELSE <<x>> \o sorted

RECURSIVE SortAsc(_)
SortAsc(vals) ==
  IF vals = <<>> THEN <<>>
  ELSE InsertAsc(SortAsc(Tail(vals)), Head(vals))

\* Series.median(): NaN skipped; the middle value, or the mean of the two middle
\* values; NaN for an empty series.
median(vals) ==
  LET v == SortAsc(SelectSeq(vals, LAMBDA x : num_notna(x)))
      n == Len(v)
  IN IF n = 0 THEN NaN
     ELSE IF n % 2 = 1 THEN v[(n + 1) \div 2]
     ELSE LET s == Add(v[n \div 2], v[n \div 2 + 1]) IN Ratio(s.n, 2 * s.d)

\* f"{x:,.0f}" read back as a number: the nearest integer.
fmt0(x) == RoundHalfEven(x.n, x.d)
\* f"{x:.2f}%": the value in hundredths of a percent.
fmt2(x) == RoundHalfEven(x.n * 100, x.d)

IssueItem(r) ==
  [category |-> r.category, rate |-> fmt2(r.rate), amount |-> fmt0(r.amount),
   profit |-> fmt0(r.profit)]

Items(rows) == [i \in 1..Len(rows) |-> IssueItem(rows[i])]

NoIssues ==
  [high_margin |-> <<>>, low_margin |-> <<>>, zero_margin |-> <<>>,
   big_low |-> <<>>, small_high |-> <<>>]

\* identify_issues with "large" read as strictly above the median.
identify_issues_strict(ca) ==
  LET median_amount == median(ColumnOf(ca, "amount"))
  IN [high_margin |-> Items(SelectSeq(ca, LAMBDA r : Ge(r.rate, Num(18)))),
      low_margin |-> Items(SelectSeq(ca, LAMBDA r : Le(r.rate, Num(5)))),
      zero_margin |-> Items(SelectSeq(ca, LAMBDA r : Le(r.rate, Num(2)))),
      big_low |-> Items(SelectSeq(ca,
                    LAMBDA r : Gt(r.amount, median_amount) /\ Lt(r.rate, Num(10)))),
      small_high |-> Items(SelectSeq(ca,
                    LAMBDA r : Lt(r.amount, median_amount) /\ Ge(r.rate, Num(15))))]

\* identify_issues: the five tiers (超高毛利率, 超低毛利率, 零负毛利, 大而不赚, 潜力).
identify_issues(ca) ==
  LET median_amount == median(ColumnOf(ca, "amount"))
  IN [high_margin |-> Items(SelectSeq(ca, LAMBDA r : Ge(r.rate, Num(18)))),
      low_margin |-> Items(SelectSeq(ca, LAMBDA r : Le(r.rate, Num(5)))),
      zero_margin |-> Items(SelectSeq(ca, LAMBDA r : Le(r.rate, Num(2)))),
      big_low |-> Items(SelectSeq(ca,
                    LAMBDA r : Ge(r.amount, median_amount) /\ Lt(r.rate, Num(10)))),
      small_high |-> Items(SelectSeq(ca,
                    LAMBDA r : Lt(r.amount, median_amount) /\ Ge(r.rate, Num(15))))]

\* create_visualizations, chart 6: the four quadrants around the amount median
\* and the 10% rate line (category keys per quadrant).
quadrants_of(ca) ==
  LET median_amount == median(ColumnOf(ca, "amount"))
      median_rate == Num(10)
      keysOf(rows) == [i \in 1..Len(rows) |-> rows[i].category]
  IN [q1 |-> keysOf(SelectSeq(ca,
               LAMBDA r : Ge(r.amount, median_amount) /\ Ge(r.rate, median_rate))),
      q2 |-> keysOf(SelectSeq(ca,
               LAMBDA r : Lt(r.amount, median_amount) /\ Ge(r.rate, median_rate))),
      q3 |-> keysOf(SelectSeq(ca,
               LAMBDA r : Lt(r.amount, median_amount) /\ Lt(r.rate, median_rate))),
      q4 |-> keysOf(SelectSeq(ca,
               LAMBDA r : Ge(r.amount, median_amount) /\ Lt(r.rate, median_rate)))]

FirstN(seq, n) == SubSeq(seq, 1, IF Len(seq) < n THEN Len(seq) ELSE n)

\* One tier section of the report: the "none" sentence when the tier is empty,
\* else the first `shown` items.
Section(items, shown) ==
  [none_statement |-> items = <<>>, listed |-> FirstN(items, shown), count |-> Len(items)]

risk_level(amount) ==
  IF amount > 30000 THEN "high" ELSE IF amount > 10000 THEN "medium" ELSE "low"

NoHealth ==
  [present |-> FALSE, healthy |-> 0, warning |-> 0, danger |-> 0, total |-> 0,
   rating |-> "none"]

\* Section 3.1 of the report: health bands, evaluated only for a non-empty table.
health_of(ca) ==
  IF Len(ca) > 0
  THEN LET healthy_count == Len(SelectSeq(ca, LAMBDA r : Ge(r.rate, Num(10))))
           warning_count == Len(SelectSeq(ca,
                              LAMBDA r : Ge(r.rate, Num(5)) /\ Lt(r.rate, Num(10))))
           danger_count == Len(SelectSeq(ca, LAMBDA r : Lt(r.rate, Num(5))))
           total_count == Len(ca)
       IN [present |-> TRUE, healthy |-> healthy_count, warning |-> warning_count,
           danger |-> danger_count, total |-> total_count,
           rating |-> IF total_count > 0 /\ healthy_count * 10 >= 6 * total_count THEN "good"
                      ELSE IF healthy_count * 10 >= 4 * total_count THEN "fair"
                      ELSE "poor"]
  ELSE NoHealth

NoReport ==
  [written |-> FALSE, sku_total |-> 0, category_total |-> 0,
   high_margin |-> Section(<<>>, 10), low_margin |-> Section(<<>>, 10),
   low_risk |-> <<>>, zero_margin |-> Section(<<>>, 10),
   big_low |-> Section(<<>>, 5), small_high |-> Section(<<>>, 5), health |-> NoHealth]

generate_report(frame, ca, m, iss) ==
  [written |-> TRUE, sku_total |-> Len(frame.rows), category_total |-> Len(ca),
   high_margin |-> Section(iss.high_margin, 10),
   low_margin |-> Section(iss.low_margin, 10),
   low_risk |-> [i \in 1..Len(FirstN(iss.low_margin, 10)) |-> risk_level(iss.low_margin[i].amount)],
   zero_margin |-> Section(iss.zero_margin, 10),
   big_low |-> Section(iss.big_low, 5),
   small_high |-> Section(iss.small_high, 5),
   health |-> health_of(ca)]

\* ---------------------------------------------------------------- inputs
Labels == {NA, <<"A">>, <<"B">>, <<"A", "H", "Z">>, <<"Z", "J">>}
Names == {NA, <<"p", "1">>, <<"p", "2">>}

\* <<sales_amount cell, gross_profit cell>> of a sheet row.
NumericCells ==
  {<<NaN, NaN>>, <<Num(0), Num(0)>>, <<Num(1000), Num(50)>>, <<Num(100), Num(18)>>,
   <<Num(439), Num(79)>>, <<Num(100), Num(1)>>}
\* price_analysis.py coerces, so its sheets may also hold text in a numeric cell.
CoercibleCells == NumericCells \cup {<<Text, Num(50)>>}

RowsOver(labels, names, cells) ==
  {[category |-> l, product_name |-> nm, sales_amount |-> c[1], gross_profit |-> c[2]] :
     l \in labels, nm \in names, c \in cells}

TablesOver(rows, maxLen) == UNION {[1..n -> rows] : n \in 0..maxLen}

PriceTables == TablesOver(RowsOver(Labels, Names, CoercibleCells), MaxRows)
ProductTables == TablesOver(RowsOver(Labels, Names, NumericCells), MaxRows)

\* Sheets of plain data rows over three categories, for the classifier.
EntityTables ==
  TablesOver(RowsOver({<<"A">>, <<"B">>, <<"C">>}, {<<"p", "1">>},
                      {<<Num(1000), Num(50)>>, <<Num(1000), Num(120)>>,
                       <<Num(100), Num(18)>>, <<Num(439), Num(79)>>,
                       <<Num(100), Num(1)>>}),
             MaxEntities)

Schemas == {AllColumns} \cup {AllColumns \ {c} : c \in AllColumns}

\* ---------------------------------------------------------------- state
VARIABLES entry, pc, error, schema, raw, df, df_clean, metrics, cat_summary,
          product_summary, exports, category_analysis, issues, quadrants, report,
          outputs, denominators

vars == <<entry, pc, error, schema, raw, df, df_clean, metrics, cat_summary,
          product_summary, exports, category_analysis, issues, quadrants, report,
          outputs, denominators>>

NoMetrics ==
  [total_profit |-> NaN, has_total_profit |-> FALSE,
   total_amount |-> NaN, has_total_amount |-> FALSE]
NoExports == [high_margin |-> <<>>, low_margin |-> <<>>, zero_margin |-> <<>>]
NoQuadrants == [q1 |-> <<>>, q2 |-> <<>>, q3 |-> <<>>, q4 |-> <<>>]

Init ==
  /\ entry \in {"price_analysis", "analyze_products"}
  /\ pc = "start"
  /\ error = "none"
  /\ schema = {}
  /\ raw = <<>>
  /\ df = EmptyFrame
  /\ df_clean = <<>>
  /\ metrics = NoMetrics
  /\ cat_summary = <<>>
  /\ product_summary = <<>>
  /\ exports = NoExports
  /\ category_analysis = <<>>
  /\ issues = NoIssues
  /\ quadrants = NoQuadrants
  /\ report = NoReport
  /\ outputs = {}
  /\ denominators = {}

Fail(kind) == pc' = "failed" /\ error' = kind

\* ------------------------------------------------- price_analysis.main
\* out_dir.mkdir(parents=True, exist_ok=True)
PA_MkDir ==
  /\ entry = "price_analysis" /\ pc = "start"
  /\ outputs' = outputs \cup {"out_dir"}
  /\ pc' = "load"
  /\ UNCHANGED <<entry, denominators, error, schema, raw, df, df_clean, metrics, cat_summary,
                 product_summary, exports, category_analysis, issues, quadrants, report>>

\* df = load_data(input_path, args.sheet): read_excel raises when the file or the
\* sheet cannot be read, indexing raises KeyError when a column is missing.
PA_LoadData(readables, schemas, tables) ==
  /\ entry = "price_analysis" /\ pc = "load"
  /\ \E readable \in readables, cols \in schemas :
       IF ~readable
       THEN /\ Fail("ReadError")
            /\ UNCHANGED <<schema, raw, df>>
       ELSE IF ~(load_data_columns \subseteq cols)
       THEN /\ Fail("KeyError")
            /\ schema' = cols
            /\ UNCHANGED <<raw, df>>
       ELSE \E rows \in tables :
              /\ schema' = cols
              /\ raw' = rows
              /\ df' = load_data(Frame(cols, rows))
              /\ pc' = "summarize"
              /\ UNCHANGED error
  /\ UNCHANGED <<entry, denominators, df_clean, metrics, cat_summary, product_summary, exports,
                 category_analysis, issues, quadrants, report, outputs>>

\* cat_summary, product_summary = summarize(df)
PA_Summarize ==
  /\ entry = "price_analysis" /\ pc = "summarize"
  /\ \E naMatches \in BOOLEAN :
       /\ cat_summary' = summarize(df, naMatches)[1]
       /\ product_summary' = summarize(df, naMatches)[2]
  /\ denominators' = denominators \cup summarize_denominators(df)
  /\ pc' = "export"
  /\ UNCHANGED <<entry, error, schema, raw, df, df_clean, metrics, exports,
                 category_analysis, issues, quadrants, report, outputs>>

\* export_tables(cat_summary, product_summary, out_dir)
PA_ExportTables ==
  /\ entry = "price_analysis" /\ pc = "export"
  /\ exports' = export_tables(product_summary)
  /\ outputs' = outputs \cup {"category_summary.csv", "product_summary.csv",
                              "high_margin_products.csv", "low_margin_products.csv",
                              "zero_margin_products.csv"}
  /\ pc' = "plot_category_margin"
  /\ UNCHANGED <<entry, denominators, error, schema, raw, df, df_clean, metrics, cat_summary,
                 product_summary, category_analysis, issues, quadrants, report>>

PA_PlotCategoryMargin ==
  /\ entry = "price_analysis" /\ pc = "plot_category_margin"
  /\ outputs' = outputs \cup {"category_margin.png"}
  /\ pc' = "plot_price_trend"
  /\ UNCHANGED <<entry, denominators, error, schema, raw, df, df_clean, metrics, cat_summary,
                 product_summary, exports, category_analysis, issues, quadrants, report>>

PA_PlotPriceTrend ==
  /\ entry = "price_analysis" /\ pc = "plot_price_trend"
  /\ outputs' = outputs \cup {"price_trend.png"}
  /\ pc' = "plot_margin_distribution"
  /\ UNCHANGED <<entry, denominators, error, schema, raw, df, df_clean, metrics, cat_summary,
                 product_summary, exports, category_analysis, issues, quadrants, report>>

PA_PlotMarginDistribution ==
  /\ entry = "price_analysis" /\ pc = "plot_margin_distribution"
  /\ outputs' = outputs \cup {"margin_distribution.png"}
  /\ pc' = "done"
  /\ UNCHANGED <<entry, denominators, error, schema, raw, df, df_clean, metrics, cat_summary,
                 product_summary, exports, category_analysis, issues, quadrants, report>>

\* ------------------------------------------------- analyze_products.main
\* df = load_data('程宇昕.xlsx'): read_excel only, no column is indexed.
AP_LoadData(readables, schemas, tables) ==
  /\ entry = "analyze_products" /\ pc = "start"
  /\ \E readable \in readables, cols \in schemas :
       IF ~readable
       THEN /\ Fail("ReadError")
            /\ UNCHANGED <<schema, raw, df>>
       ELSE \E rows \in tables :
              /\ schema' = cols
              /\ raw' = rows
              /\ df' = Frame(cols, rows)
              /\ pc' = "calculate_metrics"
              /\ UNCHANGED error
  /\ UNCHANGED <<entry, denominators, df_clean, metrics, cat_summary, product_summary, exports,
                 category_analysis, issues, quadrants, report, outputs>>

\* metrics = calculate_metrics(df)
AP_CalculateMetrics ==
  /\ entry = "analyze_products" /\ pc = "calculate_metrics"
  /\ IF PRODUCT_NAME \notin df.columns
     THEN Fail("KeyError") /\ UNCHANGED metrics
     ELSE /\ metrics' = calculate_metrics(df)
          /\ pc' = "analyze_by_category"
          /\ UNCHANGED error
  /\ UNCHANGED <<entry, denominators, schema, raw, df, df_clean, cat_summary, product_summary,
                 exports, category_analysis, issues, quadrants, report, outputs>>

\* A column read from a sheet whose cells are all empty (and that has at least
\* one row) has dtype float64, on which the .str accessor raises AttributeError.
no_str_accessor(frame) ==
  /\ Len(frame.rows) > 0
  /\ \A i \in 1..Len(frame.rows) : frame.rows[i].category = NA

\* category_analysis = analyze_by_category(df).  df[category_col] raises before
\* anything is assigned; the amount column, the .str accessor and the profit
\* column are used after the filled column has been added to df.
AP_AnalyzeByCategory ==
  /\ entry = "analyze_products" /\ pc = "analyze_by_category"
  /\ IF CATEGORY \notin df.columns
     THEN /\ Fail("KeyError")
          /\ UNCHANGED <<df, df_clean, category_analysis, denominators>>
     ELSE IF SALES_AMOUNT \notin df.columns
     THEN /\ Fail("KeyError")
          /\ df' = fill_in_place(df)
          /\ UNCHANGED <<df_clean, category_analysis, denominators>>
     ELSE IF no_str_accessor(df)
     THEN /\ Fail("AttributeError")
          /\ df' = fill_in_place(df)
          /\ UNCHANGED <<df_clean, category_analysis, denominators>>
     ELSE IF GROSS_PROFIT \notin df.columns
     THEN /\ Fail("KeyError")
          /\ df' = fill_in_place(df)
          /\ df_clean' = clean_rows(df'.rows)
          /\ UNCHANGED <<category_analysis, denominators>>
     ELSE /\ df' = fill_in_place(df)
          /\ df_clean' = clean_rows(df'.rows)
          /\ category_analysis' = analyze_by_category(df)
          /\ denominators' = denominators \cup analyze_denominators(df_clean')
          /\ pc' = "identify_issues"
          /\ UNCHANGED error
  /\ UNCHANGED <<entry, schema, raw, metrics, cat_summary, product_summary, exports,
                 issues, quadrants, report, outputs>>

\* issues = identify_issues(category_analysis)
AP_IdentifyIssues ==
  /\ entry = "analyze_products" /\ pc = "identify_issues"
  /\ issues' = identify_issues(category_analysis)
  /\ pc' = "create_visualizations"
  /\ UNCHANGED <<entry, denominators, error, schema, raw, df, df_clean, metrics, cat_summary,
                 product_summary, exports, category_analysis, quadrants, report, outputs>>

\* create_visualizations(df, category_analysis): the charts of the category table
\* are drawn only for a non-empty table; the figure is saved in any case.
AP_CreateVisualizations ==
  /\ entry = "analyze_products" /\ pc = "create_visualizations"
  /\ quadrants' = IF Len(category_analysis) > 0 THEN quadrants_of(category_analysis)
                  ELSE quadrants
  /\ outputs' = outputs \cup {"product_analysis_charts.png"}
  /\ pc' = "generate_report"
  /\ UNCHANGED <<entry, denominators, error, schema, raw, df, df_clean, metrics, cat_summary,
                 product_summary, exports, category_analysis, issues, report>>

\* report = generate_report(df, category_analysis, metrics, issues)
AP_GenerateReport ==
  /\ entry = "analyze_products" /\ pc = "generate_report"
  /\ report' = generate_report(df, category_analysis, metrics, issues)
  /\ pc' = "write_report"
  /\ UNCHANGED <<entry, denominators, error, schema, raw, df, df_clean, metrics, cat_summary,
                 product_summary, exports, category_analysis, issues, quadrants, outputs>>

\* with open('/workspace/数据分析报告.md', 'w') as f: f.write(report)
AP_WriteReport ==
  /\ entry = "analyze_products" /\ pc = "write_report"
  /\ outputs' = outputs \cup {"report.md"}
  /\ pc' = "done"
  /\ UNCHANGED <<entry, denominators, error, schema, raw, df, df_clean, metrics, cat_summary,
                 product_summary, exports, category_analysis, issues, quadrants, report>>

Next ==
  \/ PA_MkDir
  \/ PA_LoadData(BOOLEAN, Schemas, PriceTables)
  \/ PA_Summarize
  \/ PA_ExportTables
  \/ PA_PlotCategoryMargin
  \/ PA_PlotPriceTrend
  \/ PA_PlotMarginDistribution
  \/ AP_LoadData(BOOLEAN, Schemas, ProductTables)
  \/ AP_CalculateMetrics
  \/ AP_AnalyzeByCategory
  \/ AP_IdentifyIssues
  \/ AP_CreateVisualizations
  \/ AP_GenerateReport
  \/ AP_WriteReport

Spec == Init /\ [][Next]_vars

\* The classifier run: analyze_products.main on a readable sheet with every
\* column, holding plain data rows of up to three categories.
InitClassify == Init /\ entry = "analyze_products"

NextClassify ==
  \/ AP_LoadData({TRUE}, {AllColumns}, EntityTables)
  \/ AP_CalculateMetrics
  \/ AP_AnalyzeByCategory
  \/ AP_IdentifyIssues
  \/ AP_CreateVisualizations
  \/ AP_GenerateReport
  \/ AP_WriteReport

SpecClassify == InitClassify /\ [][NextClassify]_vars

\* ================================================================ properties
PA_Loaded ==
  /\ entry = "price_analysis"
  /\ pc \in {"summarize", "export", "plot_category_margin", "plot_price_trend",
             "plot_margin_distribution", "done"}
PA_Summarized ==
  /\ entry = "price_analysis"
  /\ pc \in {"export", "plot_category_margin", "plot_price_trend",
             "plot_margin_distribution", "done"}
PA_Exported ==
  /\ entry = "price_analysis"
  /\ pc \in {"plot_category_margin", "plot_price_trend", "plot_margin_distribution", "done"}
AP_Analyzed ==
  /\ entry = "analyze_products"
  /\ pc \in {"identify_issues", "create_visualizations", "generate_report",
             "write_report", "done"}
AP_Classified ==
  /\ entry = "analyze_products"
  /\ pc \in {"create_visualizations", "generate_report", "write_report", "done"}
AP_Charted ==
  /\ entry = "analyze_products"
  /\ pc \in {"generate_report", "write_report", "done"}

NumEq(x, y) == x.k = "num" /\ y.k = "num" /\ x.n * y.d = y.n * x.d
HasMarker(label) == Contains(label, SUMMARY_MARK) \/ Contains(label, TOTAL_MARK)
KeysOf(rows) == {rows[i].category : i \in 1..Len(rows)}

\* C1: every row of the cleaned table has a non-null category, whatever the raw
\* table (also when its first rows carry a product name but no label above them).
C1_CleanedCategoryNeverNull ==
  /\ PA_Loaded => \A i \in 1..Len(df.rows) : notna(df.rows[i].category)
  /\ AP_Analyzed => \A i \in 1..Len(df_clean) : notna(df_clean[i].category_filled)

\* C2: aggregation conservation: the amounts of the category summary add up to
\* the amounts of the cleaned rows (a null amount adds nothing).
C2_AggregationConservation ==
  /\ PA_Summarized =>
       NumEq(SumCol(cat_summary, SALES_AMOUNT), SumCol(df.rows, SALES_AMOUNT))
  /\ AP_Analyzed =>
       NumEq(SumCol(category_analysis, "amount"), SumCol(df_clean, SALES_AMOUNT))

RateAsSpecified(r) ==
  IF Gt(r.sales_amount, Num(0))
  THEN NumEq(r.realized_margin_rate, Div(r.gross_profit, r.sales_amount))
  ELSE r.realized_margin_rate = Num(0)

\* C3: in every summary row the realized margin rate is gross_profit /
\* sales_amount when the summed amount is positive and 0 otherwise; it is never
\* NaN or infinite.
C3_RateFiniteAndDefined ==
  /\ PA_Summarized =>
       /\ \A i \in 1..Len(cat_summary) : RateAsSpecified(cat_summary[i])
       /\ \A i \in 1..Len(product_summary) : RateAsSpecified(product_summary[i])
  /\ AP_Analyzed =>
       \A i \in 1..Len(category_analysis) : IsFinite(category_analysis[i].rate)

\* C4: no summary group is keyed by a label holding the block-summary mark or
\* the grand-total mark, in either entry point.
C4_NoMarkerGroups ==
  /\ PA_Summarized =>
       /\ \A k \in KeysOf(cat_summary) : ~HasMarker(k)
       /\ \A k \in KeysOf(product_summary) : ~HasMarker(k)
  /\ AP_Analyzed => \A k \in KeysOf(category_analysis) : ~HasMarker(k)

\* C5: a run that fails on its input (unreadable file or sheet, missing column)
\* has created or written nothing: no table, view, chart, report or directory.
C5_NoOutputOnInputFailure ==
  pc = "failed" => outputs = {}

RequiredPresent(cols) ==
  /\ CATEGORY \in cols
  /\ PRODUCT_NAME \in cols
  /\ cols \cap {SALES_AMOUNT, GROSS_PROFIT} # {}

\* C6: the loader of price_analysis raises on a readable sheet exactly when a
\* required column (category, product_name, every amount column) is absent; the
\* optional contribution column may be absent.
C6_LoaderFailsOnlyOnRequired ==
  (entry = "price_analysis" /\ pc \notin {"start", "load"} /\ error # "ReadError")
    => ((pc = "failed") <=> ~RequiredPresent(schema))

\* The raw rows with their label filled down.
FilledRaw ==
  LET filledCol == ffill(ColumnOf(raw, CATEGORY))
  IN [i \in 1..Len(raw) |-> [raw[i] EXCEPT !.category = filledCol[i]]]

CleanedHas(r) ==
  IF entry = "price_analysis"
  THEN \E j \in 1..Len(df.rows) :
         /\ df.rows[j].category = r.category
         /\ df.rows[j].product_name = r.product_name
         /\ df.rows[j].sales_amount = to_numeric(r.sales_amount)
         /\ df.rows[j].gross_profit = to_numeric(r.gross_profit)
  ELSE \E j \in 1..Len(df_clean) :
         /\ df_clean[j].category_filled = r.category
         /\ df_clean[j].product_name = r.product_name
         /\ df_clean[j].sales_amount = to_numeric(r.sales_amount)
         /\ df_clean[j].gross_profit = to_numeric(r.gross_profit)

\* C7: a named row with a missing or unparsable numeric cell survives cleaning
\* with only that cell missing, and is counted by the aggregation (sku_count).
C7_RowWithMissingCellRetained ==
  /\ (PA_Loaded \/ AP_Analyzed) =>
       \A i \in 1..Len(raw) :
         (notna(FilledRaw[i].product_name) /\ ~HasMarker(FilledRaw[i].category))
           => CleanedHas(FilledRaw[i])
  /\ PA_Summarized =>
       \A i \in 1..Len(cat_summary) :
         cat_summary[i].sku_count =
           Cardinality({FilledRaw[j].product_name : j \in
              {j \in 1..Len(raw) : /\ FilledRaw[j].category = cat_summary[i].category
                                   /\ notna(FilledRaw[j].product_name)}})

\* C8: the High-margin tier holds exactly the entities whose true rate
\* gross_profit / sales_amount is at least 18% (18% itself included, nothing
\* below 18% included).
C8_HighMarginExact ==
  /\ AP_Classified =>
       \A i \in 1..Len(category_analysis) :
         (category_analysis[i].category \in KeysOf(issues.high_margin))
           <=> Ge(Div(category_analysis[i].profit, category_analysis[i].amount),
                  Ratio(18, 100))
  /\ PA_Exported =>
       \A i \in 1..Len(product_summary) :
         Gt(product_summary[i].sales_amount, Num(0)) =>
           ((product_summary[i] \in Range(exports.high_margin))
              <=> Ge(Div(product_summary[i].gross_profit, product_summary[i].sales_amount),
                     Ratio(18, 100)))

\* C9: the Zero/negative-margin tier is defined by rate <= 2% in each of its
\* outputs: the classifier's category tier and the exported product view.
C9_ZeroMarginTwoPercent ==
  /\ AP_Classified =>
       \A i \in 1..Len(category_analysis) :
         (category_analysis[i].category \in KeysOf(issues.zero_margin))
           <=> Le(category_analysis[i].rate, Num(2))
  /\ PA_Exported =>
       \A i \in 1..Len(product_summary) :
         (product_summary[i] \in Range(exports.zero_margin))
           <=> Le(product_summary[i].realized_margin_rate, Ratio(2, 100))

\* The median of the amounts of a table kept in descending order of amount, by
\* rank: the middle row, or the mean of the two middle rows.
RankMedian(ca) ==
  LET n == Len(ca)
  IN IF n % 2 = 1 THEN ca[(n + 1) \div 2].amount
     ELSE LET s == Add(ca[n \div 2].amount, ca[n \div 2 + 1].amount)
          IN Ratio(s.n, 2 * s.d)

IsLarge(r, ca) == Ge(r.amount, RankMedian(ca))
IsSmall(r, ca) == Lt(r.amount, RankMedian(ca))
KeySeq(rows) == [i \in 1..Len(rows) |-> rows[i].category]

\* C10: each classification call splits the table it is given at the median of
\* its amounts, large = amount >= median, small = amount < median: every entity
\* is on exactly one side (ties at the median are large), Large-but-unprofitable
\* is the large entities with rate < 10%, Potential the small ones with rate >=
\* 15%, no entity is in both, and the chart's four quadrants split the same way.
C10_MedianSplit ==
  /\ (AP_Classified /\ Len(category_analysis) > 0) =>
       LET ca == category_analysis
       IN /\ \A i \in 1..Len(ca) : IsLarge(ca[i], ca) # IsSmall(ca[i], ca)
          /\ KeySeq(issues.big_low) =
               KeySeq(SelectSeq(ca, LAMBDA r : IsLarge(r, ca) /\ Lt(r.rate, Num(10))))
          /\ KeySeq(issues.small_high) =
               KeySeq(SelectSeq(ca, LAMBDA r : IsSmall(r, ca) /\ Ge(r.rate, Num(15))))
          /\ KeysOf(issues.big_low) \cap KeysOf(issues.small_high) = {}
  /\ (AP_Classified /\ Len(category_analysis) = 0) =>
       issues.big_low = <<>> /\ issues.small_high = <<>>
  /\ (AP_Charted /\ Len(category_analysis) > 0) =>
       LET ca == category_analysis
           large == {ca[i].category : i \in {j \in 1..Len(ca) : IsLarge(ca[j], ca)}}
           small == {ca[i].category : i \in {j \in 1..Len(ca) : IsSmall(ca[j], ca)}}
       IN /\ Range(quadrants.q1) \cup Range(quadrants.q4) = large
          /\ Range(quadrants.q2) \cup Range(quadrants.q3) = small
          /\ Range(quadrants.q1) \cap Range(quadrants.q4) = {}
          /\ Range(quadrants.q2) \cap Range(quadrants.q3) = {}
          /\ large \cap small = {}
          /\ large \cup small = KeysOf(ca)

\* C10 witness: three categories, the two largest tied at the median and both
\* Large-but-unprofitable, the third below the median and Potential.
C10_Witness ==
  /\ AP_Charted
  /\ Len(category_analysis) = 3
  /\ NumEq(category_analysis[1].amount, category_analysis[2].amount)
  /\ Gt(category_analysis[2].amount, category_analysis[3].amount)
  /\ Len(issues.big_low) = 2
  /\ Len(issues.small_high) = 1


\* C11: every sales amount by which a margin ratio is divided is greater than
\* zero, in both entry points: a group whose summed amount is zero or null is
\* left out before gross profit / sales amount is computed.
C11_DenominatorsPositive ==
  \A d \in denominators : IsFinite(d) /\ Gt(d, Num(0))

\* C12: no stage modifies the table it receives: once loaded, the raw table
\* keeps the columns and the rows the loader returned, through the aggregator,
\* the classifier, the chart renderer and the reporter.
C12_TableUnmodified ==
  /\ (entry = "analyze_products" /\ pc \notin {"start", "failed"})
       => df = Frame(schema, raw)
  /\ (entry = "analyze_products" /\ pc = "failed" /\ error # "ReadError")
       => df = Frame(schema, raw)
  /\ PA_Loaded => df = load_data(Frame(schema, raw))

\* The analysis of analyze_products has a sheet with the columns it reads, and no
\* row of that sheet passes the cleaning filters of analyze_by_category.
NoRowSurvives ==
  /\ entry = "analyze_products"
  /\ pc # "start" /\ error # "ReadError"
  /\ {CATEGORY, PRODUCT_NAME, SALES_AMOUNT, GROSS_PROFIT} \subseteq schema
  /\ clean_rows(fill_in_place(Frame(schema, raw)).rows) = <<>>

AllNoneStatements(rep) ==
  /\ rep.written
  /\ \A tier \in {"high_margin", "low_margin", "zero_margin", "big_low", "small_high"} :
       rep[tier].none_statement /\ rep[tier].count = 0

\* C13: an empty result is not an error: when no row survives cleaning, no stage
\* raises, the aggregator returns an empty table, the classifier returns five
\* empty tiers, the report states "none" for every tier, and the health-band
\* fractions are never divided by an entity count of zero.
C13_EmptyResultNotAnError ==
  /\ NoRowSurvives =>
       /\ pc # "failed"
       /\ AP_Analyzed => category_analysis = <<>>
       /\ AP_Classified => issues = NoIssues
       /\ pc \in {"write_report", "done"} => AllNoneStatements(report)
  /\ report.health.present => report.health.total > 0

====
